---- MODULE Spec2Model ----
(***************************************************************************)
(* Conversation storage and retention purge of the Cloudflare Worker with  *)
(* per-account Durable Objects (class AgentContainer plus the Hono routes  *)
(* and the cron handler of the storage-enabled worker).                    *)
(*                                                                         *)
(* One Durable Object per accountId owns two SQLite tables, conversations  *)
(* and messages.  Every method of the object runs its SQL statements       *)
(* without an intervening await, so a method is one atomic step of its     *)
(* scope; the Worker's /query handler awaits the container and then the    *)
(* object, so it is three steps.                                           *)
(*                                                                         *)
(* Timestamps are counted in days (one day is 24 * 60 * 60 * 1000 ms): the *)
(* code only subtracts and compares them, and divides by the length of a   *)
(* day for the age it reports.                                             *)
(***************************************************************************)
EXTENDS Integers, Sequences, FiniteSets, TLC

\* ------------------------------------------------------------------ bounds
\* Clock steps taken, /query requests forwarded to a container, and the
\* largest limit / offset of a listing.
MaxElapsed == 2
MaxQueries == 2
MaxLimit == 2

\* ------------------------------------------------------- program constants
\* 30 * 24 * 60 * 60 * 1000 ms, in days.
PURGE_THRESHOLD_MS == 30

\* The clock moves in steps of the threshold and starts late enough for
\* every cutoff to be a positive time, as Date.now() - 30 days is.
TickDays == PURGE_THRESHOLD_MS
StartTime == 2 * PURGE_THRESHOLD_MS
EndTime == StartTime + MaxElapsed * TickDays

\* ---------------------------------------------------------------- universes
Accounts == {"default", "acct1"}
ClientSessionIds == {"s1"}
\* The prompt of the k-th forwarded request: opaque text, one per request.
Prompts == <<"p1", "p2", "p3", "p4">>
Responses == {"r1"}
Undefined == "undefined"

\* Math.random().toString(36).slice(2, 11): what a call may give.
RandomSuffixes == {"x", "y"}

\* `session_${Date.now()}_${random}`: the id the Worker makes up when the
\* request carries none, one string per (clock value, random suffix).
GeneratedIds ==
    [x |-> <<"session_0_x", "session_1_x", "session_2_x", "session_3_x">>,
     y |-> <<"session_0_y", "session_1_y", "session_2_y", "session_3_y">>]
NewSessionId(t, random) == GeneratedIds[random][(t - StartTime) \div TickDays + 1]
SessionIds ==
    ClientSessionIds \cup
    {GeneratedIds[r][i] : r \in RandomSuffixes, i \in 1..Len(GeneratedIds["x"])}

VARIABLES now, conversations, messages, sqlite_sequence, req, last, forwarded, prior

vars == <<now, conversations, messages, sqlite_sequence, req, last, forwarded, prior>>
store == <<conversations, messages, sqlite_sequence>>

\* ------------------------------------------------------------ JSON and SQL
\* JSON.stringify(v) is a text that encodes v, and JSON.parse decodes it.
\* JSON.stringify(undefined) is undefined, which sql.exec binds as NULL.
SqlNull == [json |-> FALSE, of |-> Undefined]
JSONstringify(v) == [json |-> TRUE, of |-> v]
JSONparse(text) == text.of
BindContent(content) ==
    IF content = Undefined THEN SqlNull ELSE JSONstringify(content)

\* A row that does not exist.
NoRow == [exists |-> FALSE]
Exists(row) == row.exists

EmptyTable == [s \in SessionIds |-> NoRow]

\* Mutant: foreign keys are not enforced, nothing cascades.
CascadeDelete_Off(msgs, gone) == msgs

\* FOREIGN KEY (session_id) REFERENCES conversations ON DELETE CASCADE,
\* with PRAGMA foreign_keys = ON: the messages left once the conversations
\* in `gone` are deleted.
CascadeDelete(msgs, gone) ==
    LET keep(m) == m.session_id \notin gone IN SelectSeq(msgs, keep)

\* -------------------------------------------------- purgeOldConversations
\* Mutant: the SELECT has no WHERE clause.
SelectOlderThan_All(convs, cutoffTime) ==
    {s \in SessionIds : Exists(convs[s])}

\* SELECT session_id FROM conversations WHERE last_accessed_at < ?
SelectOlderThan(convs, cutoffTime) ==
    {s \in SessionIds : Exists(convs[s]) /\ convs[s].last_accessed_at < cutoffTime}

\* Mutant: the DELETE compares with <=.
DeleteOlderThan_Inclusive(convs, cutoffTime) ==
    [s \in SessionIds |->
        IF Exists(convs[s]) /\ convs[s].last_accessed_at <= cutoffTime
        THEN NoRow ELSE convs[s]]

\* DELETE FROM conversations WHERE last_accessed_at < ?
DeleteOlderThan(convs, cutoffTime) ==
    [s \in SessionIds |->
        IF Exists(convs[s]) /\ convs[s].last_accessed_at < cutoffTime
        THEN NoRow ELSE convs[s]]

PurgeFaults == {"none", "select", "delete"}

\* Mutant: the cutoff is taken two thresholds back.
purgeOldConversations_LateCutoff(convs, msgs, t, fault) ==
    LET cutoffTime == t - 2 * PURGE_THRESHOLD_MS
        toDelete == SelectOlderThan(convs, cutoffTime)
        after == DeleteOlderThan(convs, cutoffTime)
        gone == {s \in SessionIds : Exists(convs[s]) /\ ~Exists(after[s])}
    IN  IF fault = "none"
        THEN [convs |-> after,
              msgs |-> CascadeDelete(msgs, gone),
              result |-> [deleted |-> Cardinality(toDelete), errors |-> 0]]
        ELSE [convs |-> convs,
              msgs |-> msgs,
              result |-> [deleted |-> 0, errors |-> 1]]

\* Mutant: the catch block returns errors = 0.
purgeOldConversations_ErrorsUncounted(convs, msgs, t, fault) ==
    LET cutoffTime == t - PURGE_THRESHOLD_MS
        toDelete == SelectOlderThan(convs, cutoffTime)
        after == DeleteOlderThan(convs, cutoffTime)
        gone == {s \in SessionIds : Exists(convs[s]) /\ ~Exists(after[s])}
    IN  IF fault = "none"
        THEN [convs |-> after,
              msgs |-> CascadeDelete(msgs, gone),
              result |-> [deleted |-> Cardinality(toDelete), errors |-> 0]]
        ELSE [convs |-> convs,
              msgs |-> msgs,
              result |-> [deleted |-> 0, errors |-> 0]]

\* Mutant: `deleted` is the number of rows the DELETE wrote, the cascaded
\* message rows included.
purgeOldConversations_RowsWritten(convs, msgs, t, fault) ==
    LET cutoffTime == t - PURGE_THRESHOLD_MS
        after == DeleteOlderThan(convs, cutoffTime)
        gone == {s \in SessionIds : Exists(convs[s]) /\ ~Exists(after[s])}
        kept == CascadeDelete(msgs, gone)
    IN  IF fault = "none"
        THEN [convs |-> after,
              msgs |-> kept,
              result |-> [deleted |-> Cardinality(gone) + Len(msgs) - Len(kept),
                          errors |-> 0]]
        ELSE [convs |-> convs,
              msgs |-> msgs,
              result |-> [deleted |-> 0, errors |-> 1]]

\* Mutant: the throw of the DELETE comes after its rows are gone.
purgeOldConversations_DeletesThenThrows(convs, msgs, t, fault) ==
    LET cutoffTime == t - PURGE_THRESHOLD_MS
        toDelete == SelectOlderThan(convs, cutoffTime)
        after == DeleteOlderThan(convs, cutoffTime)
        gone == {s \in SessionIds : Exists(convs[s]) /\ ~Exists(after[s])}
    IN  IF fault = "none"
        THEN [convs |-> after,
              msgs |-> CascadeDelete(msgs, gone),
              result |-> [deleted |-> Cardinality(toDelete), errors |-> 0]]
        ELSE IF fault = "delete"
        THEN [convs |-> after,
              msgs |-> CascadeDelete(msgs, gone),
              result |-> [deleted |-> 0, errors |-> 1]]
        ELSE [convs |-> convs,
              msgs |-> msgs,
              result |-> [deleted |-> 0, errors |-> 1]]

\* Mutant: the purge deletes the conversations and leaves their messages.
purgeOldConversations_KeepsMessages(convs, msgs, t, fault) ==
    LET cutoffTime == t - PURGE_THRESHOLD_MS
        toDelete == SelectOlderThan(convs, cutoffTime)
    IN  IF fault = "none"
        THEN [convs |-> DeleteOlderThan(convs, cutoffTime),
              msgs |-> msgs,
              result |-> [deleted |-> Cardinality(toDelete), errors |-> 0]]
        ELSE [convs |-> convs,
              msgs |-> msgs,
              result |-> [deleted |-> 0, errors |-> 1]]

\* The method on scope state (convs, msgs) at clock t; `fault` names the
\* statement that throws, if any.  A statement that throws changes nothing.
purgeOldConversations(convs, msgs, t, fault) ==
    LET cutoffTime == t - PURGE_THRESHOLD_MS
        toDelete == SelectOlderThan(convs, cutoffTime)
        after == DeleteOlderThan(convs, cutoffTime)
        gone == {s \in SessionIds : Exists(convs[s]) /\ ~Exists(after[s])}
    IN  IF fault = "none"
        THEN [convs |-> after,
              msgs |-> CascadeDelete(msgs, gone),
              result |-> [deleted |-> Cardinality(toDelete), errors |-> 0]]
        ELSE [convs |-> convs,
              msgs |-> msgs,
              result |-> [deleted |-> 0, errors |-> 1]]

\* ------------------------------------------------------- storeConversation
\* Mutant: INSERT OR REPLACE, the row is written anew on every call.
UpsertConversation_Replace(convs, sessionId, accountId, t, count) ==
    [convs EXCEPT ![sessionId] =
        [exists |-> TRUE,
         session_id |-> sessionId,
         account_id |-> accountId,
         created_at |-> t,
         last_accessed_at |-> t,
         metadata |-> JSONstringify([message_count |-> count])]]

\* Mutant: no primary key and no ON CONFLICT clause: the INSERT of a
\* session_id the table holds makes a second row of it (held in a free slot).
UpsertConversation_SecondRow(convs, sessionId, accountId, t, count) ==
    LET slot == IF Exists(convs[sessionId])
                THEN CHOOSE k \in SessionIds : ~Exists(convs[k])
                ELSE sessionId
    IN  [convs EXCEPT ![slot] =
            [exists |-> TRUE,
             session_id |-> sessionId,
             account_id |-> accountId,
             created_at |-> t,
             last_accessed_at |-> t,
             metadata |-> JSONstringify([message_count |-> count])]]

\* Mutant: the row is written without the request's account, account_id
\* is "default" in every scope.
UpsertConversation_AccountIgnored(convs, sessionId, accountId, t, count) ==
    IF Exists(convs[sessionId])
    THEN [convs EXCEPT ![sessionId].last_accessed_at = t]
    ELSE [convs EXCEPT ![sessionId] =
            [exists |-> TRUE,
             session_id |-> sessionId,
             account_id |-> "default",
             created_at |-> t,
             last_accessed_at |-> t,
             metadata |-> JSONstringify([message_count |-> count])]]

\* Mutant: ON CONFLICT(session_id) DO UPDATE SET created_at = ?.
UpsertConversation_UpdatesCreatedAt(convs, sessionId, accountId, t, count) ==
    IF Exists(convs[sessionId])
    THEN [convs EXCEPT ![sessionId].created_at = t]
    ELSE [convs EXCEPT ![sessionId] =
            [exists |-> TRUE,
             session_id |-> sessionId,
             account_id |-> accountId,
             created_at |-> t,
             last_accessed_at |-> t,
             metadata |-> JSONstringify([message_count |-> count])]]

\* INSERT INTO conversations ... ON CONFLICT(session_id) DO UPDATE SET
\* last_accessed_at = ? : a new row takes every value, an existing row only
\* the new last_accessed_at.
UpsertConversation(convs, sessionId, accountId, t, count) ==
    IF Exists(convs[sessionId])
    THEN [convs EXCEPT ![sessionId].last_accessed_at = t]
    ELSE [convs EXCEPT ![sessionId] =
            [exists |-> TRUE,
             session_id |-> sessionId,
             account_id |-> accountId,
             created_at |-> t,
             last_accessed_at |-> t,
             metadata |-> JSONstringify([message_count |-> count])]]

\* The row INSERT INTO messages makes of msg; id is the AUTOINCREMENT value.
MessageRow(id, sessionId, t, msg) ==
    [id |-> id, session_id |-> sessionId, timestamp |-> t,
     role |-> msg.role, content |-> BindContent(msg.content)]

\* role TEXT NOT NULL, content TEXT NOT NULL, and the foreign key on
\* session_id: whether the INSERT of row is accepted.
MessageRowAccepted(convs, row) ==
    /\ row.role # Undefined
    /\ row.content # SqlNull
    /\ Exists(convs[row.session_id])

\* for (const msg of messages) sql.exec(INSERT INTO messages ...), from the
\* i-th message on.  The statement numbered `fault` throws (statement 1 is
\* the upsert, statement i + 1 the i-th INSERT), and so does an INSERT the
\* constraints reject; the rows inserted before it stay.
RECURSIVE InsertMessages(_, _, _, _, _, _, _, _)
InsertMessages(convs, msgs, seq, sessionId, t, input, i, fault) ==
    IF i > Len(input)
    THEN [msgs |-> msgs, seq |-> seq, threw |-> FALSE]
    ELSE LET row == MessageRow(seq + 1, sessionId, t, input[i])
         IN  IF fault = i + 1 \/ ~MessageRowAccepted(convs, row)
             THEN [msgs |-> msgs, seq |-> seq, threw |-> TRUE]
             ELSE InsertMessages(convs, Append(msgs, row), seq + 1,
                                 sessionId, t, input, i + 1, fault)

\* Mutant: the method gives way to other handlers after the upsert, its
\* messages not yet inserted.
storeConversation_UpsertOnly(convs, msgs, seq, sessionId, accountId, input, t, fault) ==
    IF fault = 1
    THEN [convs |-> convs, msgs |-> msgs, seq |-> seq, threw |-> TRUE]
    ELSE [convs |-> UpsertConversation(convs, sessionId, accountId, t, Len(input)),
          msgs |-> msgs, seq |-> seq, threw |-> FALSE]

\* Mutant: the append writes the conversation's messages anew, the earlier
\* rows of the session_id are replaced.
storeConversation_Overwrite(convs, msgs, seq, sessionId, accountId, input, t, fault) ==
    IF fault = 1
    THEN [convs |-> convs, msgs |-> msgs, seq |-> seq, threw |-> TRUE]
    ELSE LET upserted == UpsertConversation(convs, sessionId, accountId, t, Len(input))
             ins == InsertMessages(upserted, CascadeDelete(msgs, {sessionId}), seq,
                                   sessionId, t, input, 1, fault)
         IN  [convs |-> upserted, msgs |-> ins.msgs, seq |-> ins.seq,
              threw |-> ins.threw]

\* The method: no transaction surrounds the statements, the catch block
\* logs and rethrows.
storeConversation(convs, msgs, seq, sessionId, accountId, input, t, fault) ==
    IF fault = 1
    THEN [convs |-> convs, msgs |-> msgs, seq |-> seq, threw |-> TRUE]
    ELSE LET upserted == UpsertConversation(convs, sessionId, accountId, t, Len(input))
             ins == InsertMessages(upserted, msgs, seq, sessionId, t, input, 1, fault)
         IN  [convs |-> upserted, msgs |-> ins.msgs, seq |-> ins.seq,
              threw |-> ins.threw]

\* --------------------------------------------------------- getConversation
\* Mutant: rows of one timestamp come newest first.
RowBefore_NewestFirst(m1, m2) ==
    \/ m1.timestamp < m2.timestamp
    \/ m1.timestamp = m2.timestamp /\ m1.id > m2.id

\* ORDER BY timestamp ASC over idx_messages_session(session_id, timestamp):
\* ascending timestamp, rows of one timestamp in rowid order.
RowBefore(m1, m2) ==
    \/ m1.timestamp < m2.timestamp
    \/ m1.timestamp = m2.timestamp /\ m1.id < m2.id

RECURSIVE InsertSorted(_, _)
InsertSorted(sorted, m) ==
    IF sorted = <<>> THEN <<m>>
    ELSE IF RowBefore(m, Head(sorted)) THEN <<m>> \o sorted
    ELSE <<Head(sorted)>> \o InsertSorted(Tail(sorted), m)

RECURSIVE OrderByTimestamp(_)
OrderByTimestamp(rows) ==
    IF rows = <<>> THEN <<>>
    ELSE InsertSorted(OrderByTimestamp(Tail(rows)), Head(rows))

\* SELECT * FROM messages WHERE session_id = ? ORDER BY timestamp ASC
SelectMessages(msgs, sessionId) ==
    LET mine(m) == m.session_id = sessionId
    IN  OrderByTimestamp(SelectSeq(msgs, mine))

NotFound == [found |-> FALSE]

\* Mutant: the read does not update last_accessed_at.
getConversation_NoTouch(convs, msgs, sessionId, t, fault) ==
    IF fault # 0 \/ ~Exists(convs[sessionId])
    THEN [convs |-> convs, result |-> NotFound]
    ELSE LET rows == SelectMessages(msgs, sessionId)
             c == convs[sessionId]
         IN  [convs |-> convs,
              result |->
                [found |-> TRUE,
                 session_id |-> c.session_id,
                 account_id |-> c.account_id,
                 created_at |-> c.created_at,
                 last_accessed_at |-> t,
                 metadata |-> JSONparse(c.metadata),
                 messages |-> [i \in 1..Len(rows) |->
                                 [role |-> rows[i].role,
                                  content |-> JSONparse(rows[i].content),
                                  timestamp |-> rows[i].timestamp]]]]

\* The method; statement 1 reads the conversation, 2 its messages, 3 updates
\* last_accessed_at.  Any throw is caught and answered with null.
getConversation(convs, msgs, sessionId, t, fault) ==
    IF fault # 0 \/ ~Exists(convs[sessionId])
    THEN [convs |-> convs, result |-> NotFound]
    ELSE LET rows == SelectMessages(msgs, sessionId)
             c == convs[sessionId]
         IN  [convs |-> [convs EXCEPT ![sessionId].last_accessed_at = t],
              result |->
                [found |-> TRUE,
                 session_id |-> c.session_id,
                 account_id |-> c.account_id,
                 created_at |-> c.created_at,
                 last_accessed_at |-> t,
                 metadata |-> JSONparse(c.metadata),
                 messages |-> [i \in 1..Len(rows) |->
                                 [role |-> rows[i].role,
                                  content |-> JSONparse(rows[i].content),
                                  timestamp |-> rows[i].timestamp]]]]

\* ------------------------------------------------------ deleteConversation
\* Mutant: the DELETE has no WHERE clause.
deleteConversation_NoWhere(convs, msgs, sessionId, fault) ==
    IF fault
    THEN [convs |-> convs, msgs |-> msgs, result |-> FALSE]
    ELSE [convs |-> EmptyTable, msgs |-> <<>>, result |-> TRUE]

\* Mutant: the result is whether the DELETE removed a row.
deleteConversation_RowsAffected(convs, msgs, sessionId, fault) ==
    IF fault
    THEN [convs |-> convs, msgs |-> msgs, result |-> FALSE]
    ELSE [convs |-> [convs EXCEPT ![sessionId] = NoRow],
          msgs |-> IF Exists(convs[sessionId])
                   THEN CascadeDelete(msgs, {sessionId}) ELSE msgs,
          result |-> Exists(convs[sessionId])]

\* DELETE FROM conversations WHERE session_id = ? ; the messages cascade.
deleteConversation(convs, msgs, sessionId, fault) ==
    IF fault
    THEN [convs |-> convs, msgs |-> msgs, result |-> FALSE]
    ELSE [convs |-> [convs EXCEPT ![sessionId] = NoRow],
          msgs |-> IF Exists(convs[sessionId])
                   THEN CascadeDelete(msgs, {sessionId}) ELSE msgs,
          result |-> TRUE]

\* ---------------------------------------------------------- getStorageStats
JsNull == [null |-> TRUE]
JsNumber(n) == [null |-> FALSE, value |-> n]

\* SELECT MIN(created_at): NULL on an empty table.
MinCreatedAt(convs) ==
    LET rows == {s \in SessionIds : Exists(convs[s])}
    IN  IF rows = {} THEN JsNull
        ELSE JsNumber(convs[CHOOSE s \in rows :
                 \A o \in rows : convs[s].created_at <= convs[o].created_at].created_at)

ZeroedStats ==
    [total_conversations |-> 0,
     oldest_conversation_age_days |-> JsNull,
     conversations_ready_to_purge |-> 0,
     retention_policy_days |-> 30,
     error |-> TRUE]

\* Mutant: the conversations to expire are counted by created_at.
getStorageStats_ByCreatedAt(convs, t, fault) ==
    LET oldestConversation == MinCreatedAt(convs)
    IN  IF fault THEN ZeroedStats
        ELSE [total_conversations |->
                Cardinality({s \in SessionIds : Exists(convs[s])}),
              oldest_conversation_age_days |->
                IF oldestConversation.null \/ oldestConversation.value = 0
                THEN JsNull ELSE JsNumber(t - oldestConversation.value),
              conversations_ready_to_purge |->
                Cardinality({s \in SessionIds :
                    Exists(convs[s]) /\ convs[s].created_at < t - PURGE_THRESHOLD_MS}),
              retention_policy_days |-> 30,
              error |-> FALSE]

\* Mutant: the count takes last_accessed_at <= cutoff, the purge takes <.
getStorageStats_InclusiveCutoff(convs, t, fault) ==
    LET oldestConversation == MinCreatedAt(convs)
    IN  IF fault THEN ZeroedStats
        ELSE [total_conversations |->
                Cardinality({s \in SessionIds : Exists(convs[s])}),
              oldest_conversation_age_days |->
                IF oldestConversation.null \/ oldestConversation.value = 0
                THEN JsNull ELSE JsNumber(t - oldestConversation.value),
              conversations_ready_to_purge |->
                Cardinality({s \in SessionIds :
                    Exists(convs[s])
                    /\ convs[s].last_accessed_at <= t - PURGE_THRESHOLD_MS}),
              retention_policy_days |-> 30,
              error |-> FALSE]

\* The method; `oldestConversation ? ... : null` is null for NULL and for 0.
getStorageStats(convs, t, fault) ==
    LET oldestConversation == MinCreatedAt(convs)
    IN  IF fault THEN ZeroedStats
        ELSE [total_conversations |->
                Cardinality({s \in SessionIds : Exists(convs[s])}),
              oldest_conversation_age_days |->
                IF oldestConversation.null \/ oldestConversation.value = 0
                THEN JsNull ELSE JsNumber(t - oldestConversation.value),
              conversations_ready_to_purge |->
                Cardinality(SelectOlderThan(convs, t - PURGE_THRESHOLD_MS)),
              retention_policy_days |-> 30,
              error |-> FALSE]

\* --------------------------------------------------------- listConversations
\* The sequences a SELECT ... WHERE account_id = ? ORDER BY last_accessed_at
\* DESC may return: every matching row once, descending; SQL leaves the
\* order of rows with equal last_accessed_at open.
RECURSIVE Orderings(_)
Orderings(S) ==
    IF S = {} THEN {<<>>}
    ELSE UNION {{<<x>> \o rest : rest \in Orderings(S \ {x})} : x \in S}

\* Mutant: ORDER BY last_accessed_at ASC.
DescendingOrders_Ascending(convs, accountId) ==
    LET rows == {s \in SessionIds :
                    Exists(convs[s]) /\ convs[s].account_id = accountId}
    IN  {o \in Orderings(rows) :
            \A i \in 1..Len(o) - 1 :
                convs[o[i]].last_accessed_at <= convs[o[i + 1]].last_accessed_at}

DescendingOrders(convs, accountId) ==
    LET rows == {s \in SessionIds :
                    Exists(convs[s]) /\ convs[s].account_id = accountId}
    IN  {o \in Orderings(rows) :
            \A i \in 1..Len(o) - 1 :
                convs[o[i]].last_accessed_at >= convs[o[i + 1]].last_accessed_at}

\* Mutant: the OFFSET is not applied.
LimitOffset_OffsetIgnored(rows, limit, offset) ==
    SubSeq(rows, 1, IF limit < Len(rows) THEN limit ELSE Len(rows))

\* LIMIT ? OFFSET ? of an ordered result.
LimitOffset(rows, limit, offset) ==
    SubSeq(rows, offset + 1,
           IF offset + limit < Len(rows) THEN offset + limit ELSE Len(rows))

\* The method, for the order `order` the SELECT produced.
listConversations(convs, order, limit, offset, fault) ==
    IF fault THEN <<>>
    ELSE LET page == LimitOffset(order, limit, offset)
         IN  [i \in 1..Len(page) |->
                [session_id |-> convs[page[i]].session_id,
                 created_at |-> convs[page[i]].created_at,
                 last_accessed_at |-> convs[page[i]].last_accessed_at,
                 metadata |-> JSONparse(convs[page[i]].metadata)]]

\* ------------------------------------------------------------------- state
\* The Worker's /query requests in flight (req), the answer the step just
\* taken gave to its caller (last; NoOp when the step answers nobody), the
\* number of /query requests forwarded to a container so far, and the state
\* the step just taken started from (prior). Each /query request is its own
\* invocation of the Worker: "q2" is one that arrives while "q1" is in
\* flight.
Reqs == {"q1", "q2"}
IdleReq == [pc |-> "idle"]
NoOp == [op |-> "none"]

\* prior is a history variable: every step of the program records in it
\* the state it started from, so that what a step did (its answer in last,
\* the tables it left, against the tables it found) can be read in the
\* state the step produced. The handlers neither read nor depend on it.
\* NoSnapshot: the step just taken is over.
NoSnapshot == [taken |-> FALSE]

Snapshot ==
    [taken |-> TRUE, now |-> now, conversations |-> conversations,
     messages |-> messages, sqlite_sequence |-> sqlite_sequence,
     req |-> req, last |-> last, forwarded |-> forwarded]

\* The step just taken is over: its answer, if it gave one, has reached its
\* caller. A step is over before the next one is taken.
NoAnswerPending == prior = NoSnapshot

Init ==
    /\ now = StartTime
    /\ conversations = [a \in Accounts |-> EmptyTable]
    /\ messages = [a \in Accounts |-> <<>>]
    /\ sqlite_sequence = [a \in Accounts |-> 0]
    /\ req = [q \in Reqs |-> IdleReq]
    /\ last = NoOp
    /\ forwarded = 0
    /\ prior = NoSnapshot

\* Date.now() moves on.
Tick ==
    /\ NoAnswerPending
    /\ now < EndTime
    /\ now' = now + TickDays
    /\ prior' = Snapshot
    /\ last' = NoOp
    /\ UNCHANGED <<conversations, messages, sqlite_sequence, req, forwarded>>

\* The conversation rows a scope holds.
Rows(convs) == {s \in SessionIds : Exists(convs[s])}

\* Mutant: every name gets the object of "default".
idFromName_Shared(name) == "default"

\* env.AGENT_CONTAINER.idFromName(name): the id of the one Durable Object
\* of that name; the model names an object by its id.
idFromName(name) == name

\* ------------------------------------------------------ app.post("/query")
\* What the container's /run answers: {success: true, response} or, from
\* its catch, {error}. A body is written with all three fields; a field the
\* JSON does not carry is Undefined, and success FALSE stands for a success
\* field that is not there (it reads as undefined, which is falsy).
RunResults ==
    {[success |-> TRUE, response |-> r, error |-> Undefined] : r \in Responses}
    \cup {[success |-> FALSE, response |-> Undefined, error |-> "generation failed"]}

\* c.json({ error: ... }, status): the body of the Worker's own error answers.
ErrorBody == [success |-> FALSE, response |-> Undefined, error |-> "error"]

\* Mutant: the user's message is appended before the request goes to the
\* container's /run.
QueryStart_StoresPrompt(q, accountIdOpt, sessionIdOpt, promptOpt, pre, random) ==
    LET accountId == IF accountIdOpt = Undefined THEN "default" ELSE accountIdOpt
        sessionId == IF sessionIdOpt = Undefined THEN NewSessionId(now, random)
                     ELSE sessionIdOpt
        a == idFromName(accountId)
        r == storeConversation(conversations[a], messages[a], sqlite_sequence[a],
                               sessionId, accountId,
                               <<[role |-> "user", content |-> promptOpt]>>, now, 0)
        reply(status) ==
            [op |-> "query", generation |-> "none", stored |-> FALSE,
             status |-> status, body |-> ErrorBody]
    IN  /\ NoAnswerPending
        /\ req[q].pc = "idle"
        /\ IF pre = "no_token"
           THEN /\ prior' = Snapshot
                /\ last' = reply(500)
                /\ UNCHANGED <<req, forwarded, conversations, messages,
                               sqlite_sequence>>
           ELSE IF promptOpt = Undefined
           THEN /\ prior' = Snapshot
                /\ last' = reply(400)
                /\ UNCHANGED <<req, forwarded, conversations, messages,
                               sqlite_sequence>>
           ELSE IF pre = "start_throws"
           THEN /\ prior' = Snapshot
                /\ last' = reply(500)
                /\ UNCHANGED <<req, forwarded, conversations, messages,
                               sqlite_sequence>>
           ELSE /\ forwarded < MaxQueries
                /\ forwarded' = forwarded + 1
                /\ conversations' = [conversations EXCEPT ![a] = r.convs]
                /\ messages' = [messages EXCEPT ![a] = r.msgs]
                /\ sqlite_sequence' = [sqlite_sequence EXCEPT ![a] = r.seq]
                /\ req' = [req EXCEPT ![q] =
                             [pc |-> "run", body_session_id |-> sessionIdOpt,
                              accountId |-> accountId,
                              sessionId |-> sessionId, prompt |-> promptOpt]]
                /\ prior' = Snapshot
                /\ last' = NoOp
        /\ UNCHANGED now

\* From the token check to the request sent to the container's /run.
\* pre is what the environment does to the steps before it: the token is
\* not set, startAndWaitForPorts throws, or neither; random is what
\* Math.random() gives.
QueryStart(q, accountIdOpt, sessionIdOpt, promptOpt, pre, random) ==
    LET accountId == IF accountIdOpt = Undefined THEN "default" ELSE accountIdOpt
        sessionId == IF sessionIdOpt = Undefined THEN NewSessionId(now, random)
                     ELSE sessionIdOpt
        reply(status) ==
            [op |-> "query", generation |-> "none", stored |-> FALSE,
             status |-> status, body |-> ErrorBody]
    IN  /\ NoAnswerPending
        /\ req[q].pc = "idle"
        /\ IF pre = "no_token"
           THEN /\ prior' = Snapshot
                /\ last' = reply(500)
                /\ UNCHANGED <<req, forwarded>>
           ELSE IF promptOpt = Undefined
           THEN /\ prior' = Snapshot
                /\ last' = reply(400)
                /\ UNCHANGED <<req, forwarded>>
           ELSE IF pre = "start_throws"
           THEN /\ prior' = Snapshot
                /\ last' = reply(500)
                /\ UNCHANGED <<req, forwarded>>
           ELSE /\ forwarded < MaxQueries
                /\ forwarded' = forwarded + 1
                /\ req' = [req EXCEPT ![q] =
                             [pc |-> "run", body_session_id |-> sessionIdOpt,
                              accountId |-> accountId,
                              sessionId |-> sessionId, prompt |-> promptOpt]]
                /\ prior' = Snapshot
                /\ last' = NoOp
        /\ UNCHANGED <<now, conversations, messages, sqlite_sequence>>

\* instance.fetch(/run) throws, or containerRes.json() does: the outer catch
\* answers 500 and nothing is stored.
RunThrows(q) ==
    /\ NoAnswerPending
    /\ req[q].pc = "run"
    /\ req' = [req EXCEPT ![q] = IdleReq]
    /\ prior' = Snapshot
    /\ last' = [op |-> "query", generation |-> "threw", stored |-> FALSE,
                status |-> 500, body |-> ErrorBody]
    /\ UNCHANGED <<now, conversations, messages, sqlite_sequence, forwarded>>

\* The container answers /run: result = await containerRes.json().
RunReturns(q, result) ==
    /\ NoAnswerPending
    /\ req[q].pc = "run"
    /\ req' = [req EXCEPT ![q] =
                 [pc |-> "store", body_session_id |-> req[q].body_session_id,
                  accountId |-> req[q].accountId,
                  sessionId |-> req[q].sessionId, prompt |-> req[q].prompt,
                  result |-> result]]
    /\ prior' = Snapshot
    /\ last' = NoOp
    /\ UNCHANGED <<now, conversations, messages, sqlite_sequence, forwarded>>

\* The two-message turn the Worker posts to /store-conversation.
Turn(prompt, result) ==
    <<[role |-> "user", content |-> prompt],
      [role |-> "assistant", content |-> result.response]>>

\* Mutant: the answer is the container's result alone.
QueryReply_NoSessionId(result, sessionId, threw) ==
    [status |-> 200,
     body |-> [success |-> result.success, response |-> result.response,
               error |-> result.error, session_id |-> Undefined]]

\* Mutant: a throw of the store step reaches the outer catch.
QueryReply_Propagate(result, sessionId, threw) ==
    IF threw
    THEN [status |-> 500,
          body |-> [success |-> FALSE, response |-> Undefined,
                    error |-> "error", session_id |-> Undefined]]
    ELSE [status |-> 200,
          body |-> [success |-> result.success, response |-> result.response,
                    error |-> result.error, session_id |-> sessionId]]

\* try { await instance.fetch(/store-conversation) } catch { log } and then
\* return c.json({...result, session_id}): the answer, whether the store
\* step threw or not.
QueryReply(result, sessionId, threw) ==
    [status |-> 200,
     body |-> [success |-> result.success, response |-> result.response,
               error |-> result.error, session_id |-> sessionId]]

\* The store step and the answer: a throw of /store-conversation is caught
\* and logged, and c.json({...result, session_id}) is returned.
StoreStep(q, fault) ==
    LET a == idFromName(req[q].accountId)
        r == storeConversation(conversations[a], messages[a], sqlite_sequence[a],
                               req[q].sessionId, req[q].accountId,
                               Turn(req[q].prompt, req[q].result), now, fault)
        reply == QueryReply(req[q].result, req[q].sessionId, r.threw)
    IN  /\ NoAnswerPending
        /\ req[q].pc = "store"
        /\ conversations' = [conversations EXCEPT ![a] = r.convs]
        /\ messages' = [messages EXCEPT ![a] = r.msgs]
        /\ sqlite_sequence' = [sqlite_sequence EXCEPT ![a] = r.seq]
        /\ req' = [req EXCEPT ![q] = IdleReq]
        /\ prior' = Snapshot
        /\ last' = [op |-> "query", account |-> req[q].accountId,
                    session_id |-> req[q].sessionId,
                    generation |-> IF req[q].result.success THEN "ok" ELSE "failed",
                    stored |-> ~r.threw,
                    status |-> reply.status,
                    body |-> reply.body]
        /\ UNCHANGED <<now, forwarded>>

\* ------------------------------------------------ the other Worker routes
\* GET /conversations/:sessionId?accountId=a
GetConversation(a, sessionId, fault) ==
    LET id == idFromName(a)
        r == getConversation(conversations[id], messages[id], sessionId, now, fault)
    IN  /\ NoAnswerPending
        /\ conversations' = [conversations EXCEPT ![id] = r.convs]
        /\ prior' = Snapshot
        /\ last' = [op |-> "get", account |-> a, session_id |-> sessionId,
                    status |-> IF r.result.found THEN 200 ELSE 404,
                    body |-> r.result]
        /\ UNCHANGED <<now, messages, sqlite_sequence, req, forwarded>>

\* DELETE /conversations/:sessionId?accountId=a
DeleteConversation(a, sessionId, fault) ==
    LET id == idFromName(a)
        r == deleteConversation(conversations[id], messages[id], sessionId, fault)
    IN  /\ NoAnswerPending
        /\ conversations' = [conversations EXCEPT ![id] = r.convs]
        /\ messages' = [messages EXCEPT ![id] = r.msgs]
        /\ prior' = Snapshot
        /\ last' = [op |-> "delete", account |-> a, session_id |-> sessionId,
                    status |-> 200, body |-> [success |-> r.result]]
        /\ UNCHANGED <<now, sqlite_sequence, req, forwarded>>

\* Mutant: the listing counts as an access of every conversation of the
\* account.
ListConversations_Touch(a, limit, offset, fault) ==
    \E order \in DescendingOrders(conversations[idFromName(a)], a) :
        /\ NoAnswerPending
        /\ prior' = Snapshot
        /\ last' = [op |-> "list", account |-> a, status |-> 200,
                    body |-> listConversations(conversations[idFromName(a)], order,
                                               limit, offset, fault)]
        /\ conversations' =
              [conversations EXCEPT ![idFromName(a)] =
                 [s \in SessionIds |->
                    IF Exists(@[s]) THEN [@[s] EXCEPT !.last_accessed_at = now]
                    ELSE @[s]]]
        /\ UNCHANGED <<now, messages, sqlite_sequence, req, forwarded>>

\* GET /conversations?accountId=a&limit=&offset=
ListConversations(a, limit, offset, fault) ==
    \E order \in DescendingOrders(conversations[idFromName(a)], a) :
        /\ NoAnswerPending
        /\ prior' = Snapshot
        /\ last' = [op |-> "list", account |-> a, status |-> 200,
                    body |-> listConversations(conversations[idFromName(a)], order,
                                               limit, offset, fault)]
        /\ UNCHANGED <<now, conversations, messages, sqlite_sequence, req, forwarded>>

\* GET /storage-stats?accountId=a
StorageStats(a, fault) ==
    /\ NoAnswerPending
    /\ prior' = Snapshot
    /\ last' = [op |-> "stats", account |-> a, status |-> 200,
                body |-> getStorageStats(conversations[idFromName(a)], now, fault)]
    /\ UNCHANGED <<now, conversations, messages, sqlite_sequence, req, forwarded>>

\* POST /purge?accountId=a : the manual trigger.
ManualPurge(a, fault) ==
    LET id == idFromName(a)
        r == purgeOldConversations(conversations[id], messages[id], now, fault)
    IN  /\ NoAnswerPending
        /\ conversations' = [conversations EXCEPT ![id] = r.convs]
        /\ messages' = [messages EXCEPT ![id] = r.msgs]
        /\ prior' = Snapshot
        /\ last' = [op |-> "purge", account |-> a, status |-> 200,
                    body |-> r.result]
        /\ UNCHANGED <<now, sqlite_sequence, req, forwarded>>

\* Mutant: scheduled() without its try/catch, a throw of instance.fetch
\* rejects the handler's promise.
Scheduled_NoCatch(fault) ==
    LET a == "default"
        id == idFromName(a)
        r == purgeOldConversations(conversations[id], messages[id], now, fault)
    IN  /\ NoAnswerPending
        /\ IF fault = "fetch"
           THEN /\ prior' = Snapshot
                /\ last' = [op |-> "scheduled", account |-> a, status |-> 500,
                            completed |-> FALSE,
                            body |-> [deleted |-> 0, errors |-> 1]]
                /\ UNCHANGED <<now, conversations, messages, sqlite_sequence,
                               req, forwarded>>
           ELSE /\ conversations' = [conversations EXCEPT ![id] = r.convs]
                /\ messages' = [messages EXCEPT ![id] = r.msgs]
                /\ prior' = Snapshot
                /\ last' = [op |-> "scheduled", account |-> a, status |-> 200,
                            completed |-> TRUE,
                            body |-> r.result]
                /\ UNCHANGED <<now, sqlite_sequence, req, forwarded>>

\* Mutant: the cron trigger purges the object of every account.
Scheduled_EveryAccount(fault) ==
    LET r(a) == purgeOldConversations(conversations[idFromName(a)],
                                      messages[idFromName(a)], now, fault)
    IN  /\ NoAnswerPending
        /\ IF fault = "fetch"
           THEN /\ prior' = Snapshot
                /\ last' = [op |-> "scheduled", account |-> "default", status |-> 500,
                            completed |-> TRUE,
                            body |-> [deleted |-> 0, errors |-> 1]]
                /\ UNCHANGED <<now, conversations, messages, sqlite_sequence,
                               req, forwarded>>
           ELSE /\ conversations' = [a \in Accounts |-> r(a).convs]
                /\ messages' = [a \in Accounts |-> r(a).msgs]
                /\ prior' = Snapshot
                /\ last' = [op |-> "scheduled", account |-> "default", status |-> 200,
                            completed |-> TRUE,
                            body |-> r("default").result]
                /\ UNCHANGED <<now, sqlite_sequence, req, forwarded>>

\* Mutant: the purge of the cron trigger queues behind the /query requests
\* in flight.
Scheduled_BehindQueries(fault) ==
    LET a == "default"
        id == idFromName(a)
        r == purgeOldConversations(conversations[id], messages[id], now, fault)
    IN  /\ NoAnswerPending
        /\ \A q \in Reqs : req[q].pc = "idle"
        /\ IF fault = "fetch"
           THEN /\ prior' = Snapshot
                /\ last' = [op |-> "scheduled", account |-> a, status |-> 500,
                            completed |-> TRUE,
                            body |-> [deleted |-> 0, errors |-> 1]]
                /\ UNCHANGED <<now, conversations, messages, sqlite_sequence,
                               req, forwarded>>
           ELSE /\ conversations' = [conversations EXCEPT ![id] = r.convs]
                /\ messages' = [messages EXCEPT ![id] = r.msgs]
                /\ prior' = Snapshot
                /\ last' = [op |-> "scheduled", account |-> a, status |-> 200,
                            completed |-> TRUE,
                            body |-> r.result]
                /\ UNCHANGED <<now, sqlite_sequence, req, forwarded>>

\* scheduled(): the cron trigger purges the object named "default"; a throw
\* of instance.fetch is caught and logged (status 500 stands for it), and
\* either way the handler's promise resolves (completed).
Scheduled(fault) ==
    LET a == "default"
        id == idFromName(a)
        r == purgeOldConversations(conversations[id], messages[id], now, fault)
    IN  /\ NoAnswerPending
        /\ IF fault = "fetch"
           THEN /\ prior' = Snapshot
                /\ last' = [op |-> "scheduled", account |-> a, status |-> 500,
                            completed |-> TRUE,
                            body |-> [deleted |-> 0, errors |-> 1]]
                /\ UNCHANGED <<now, conversations, messages, sqlite_sequence,
                               req, forwarded>>
           ELSE /\ conversations' = [conversations EXCEPT ![id] = r.convs]
                /\ messages' = [messages EXCEPT ![id] = r.msgs]
                /\ prior' = Snapshot
                /\ last' = [op |-> "scheduled", account |-> a, status |-> 200,
                            completed |-> TRUE,
                            body |-> r.result]
                /\ UNCHANGED <<now, sqlite_sequence, req, forwarded>>

\* Mutant: the tables are dropped and created anew on every startup.
initializeDatabase_DropAndCreate(convs, msgs, seq, created) ==
    [foreign_keys |-> TRUE, convs |-> EmptyTable, msgs |-> <<>>, seq |-> 0]

\* initializeDatabase on a scope whose tables exist already (created) or do
\* not: PRAGMA foreign_keys = ON, and CREATE TABLE / CREATE INDEX IF NOT
\* EXISTS, which make an empty table where there is none and leave one that
\* is there as it is.
initializeDatabase(convs, msgs, seq, created) ==
    [foreign_keys |-> TRUE,
     convs |-> IF created THEN convs ELSE EmptyTable,
     msgs |-> IF created THEN msgs ELSE <<>>,
     seq |-> IF created THEN seq ELSE 0]

\* The Durable Object of account a is started again: its constructor runs
\* initializeDatabase on the storage the object left behind.
Restart(a) ==
    LET id == idFromName(a)
        db == initializeDatabase(conversations[id], messages[id],
                                 sqlite_sequence[id], TRUE)
    IN  /\ NoAnswerPending
        /\ conversations' = [conversations EXCEPT ![id] = db.convs]
        /\ messages' = [messages EXCEPT ![id] = db.msgs]
        /\ sqlite_sequence' = [sqlite_sequence EXCEPT ![id] = db.seq]
        /\ prior' = Snapshot
        /\ last' = [op |-> "restart", account |-> a, status |-> 200,
                    foreign_keys |-> db.foreign_keys]
        /\ UNCHANGED <<now, req, forwarded>>

\* The step just taken is over: its caller, if it has one, receives the
\* answer.
Receive ==
    /\ ~NoAnswerPending
    /\ prior' = NoSnapshot
    /\ last' = NoOp
    /\ UNCHANGED <<now, conversations, messages, sqlite_sequence, req, forwarded>>

\* The session ids a get or delete request names: a client's own, or one
\* that some scope holds.
RequestedIds ==
    ClientSessionIds \cup UNION {Rows(conversations[a]) : a \in Accounts}

\* The steps of the system when the requests name the accounts in accts
\* (a request without accountId names "default"), the /query requests in
\* flight are those of qs, and Math.random() draws from rnds.
NextOf(accts, qs, rnds) ==
    \/ Tick
    \/ \E q \in qs, a \in accts \cup {Undefined},
          s \in ClientSessionIds \cup {Undefined},
          p \in {Prompts[forwarded + 1], Undefined},
          pre \in {"ok", "no_token", "start_throws"}, rnd \in rnds :
          /\ q = "q2" => req["q1"].pc # "idle"
          /\ QueryStart(q, a, s, p, pre, rnd)
    \/ \E q \in qs : RunThrows(q)
    \/ \E q \in qs, result \in RunResults : RunReturns(q, result)
    \/ \E q \in qs, f \in 0..3 : StoreStep(q, f)
    \/ \E a \in accts, s \in RequestedIds, f \in 0..3 : GetConversation(a, s, f)
    \/ \E a \in accts, s \in RequestedIds, f \in BOOLEAN :
          DeleteConversation(a, s, f)
    \/ \E a \in accts, l \in 0..MaxLimit, o \in 0..MaxLimit, f \in BOOLEAN :
          ListConversations(a, l, o, f)
    \/ \E a \in accts, f \in BOOLEAN : StorageStats(a, f)
    \/ \E a \in accts, f \in PurgeFaults : ManualPurge(a, f)
    \/ \E f \in PurgeFaults \cup {"fetch"} : Scheduled(f)
    \/ Receive

\* One /query request at a time.
NextOn(accts) == NextOf(accts, {"q1"}, {"x"})

\* One scope: every request is for the account "default".
Next == NextOn({"default"})
Spec == Init /\ [][Next]_vars

\* Two accounts, each with its own scope.
NextAccounts == NextOn(Accounts)
SpecAccounts == Init /\ [][NextAccounts]_vars

\* Two /query requests of one account in flight at once: the Worker takes
\* a request while another awaits its container or its store step.
NextConcurrent == NextOf({"default"}, Reqs, {"x"})
SpecConcurrent == Init /\ [][NextConcurrent]_vars

\* Two accounts, with the cron trigger that keeps firing: a scheduled() whose
\* purge runs without fault is taken again and again, and every answer is
\* received.
SpecScheduled ==
    /\ Init
    /\ [][NextAccounts]_vars
    /\ SF_vars(Scheduled("none"))
    /\ WF_vars(Receive)

\* One scope, two /query requests in flight at once, and generated session
\* ids whose random part is drawn anew by each request.
NextRandom == NextOf({"default"}, Reqs, RandomSuffixes)
SpecRandom == Init /\ [][NextRandom]_vars

\* One scope whose Durable Object may be started again between requests.
NextRestart == Next \/ Restart("default")
SpecRestart == Init /\ [][NextRestart]_vars

\* ------------------------------------- the authenticated Worker's /query
\* c.env.API_KEY, and the Authorization headers a request may carry (none,
\* an empty one, the right one, one with another key, the key without
\* "Bearer ").
API_KEY == "k1"
Bearer == [k1 |-> "Bearer k1", k2 |-> "Bearer k2"]
AuthHeaders == {Undefined, "", Bearer["k1"], Bearer["k2"], "k1"}

\* What the container's /run answers with, status and body.
ContainerResponses ==
    {[status |-> 200,
      body |-> [success |-> TRUE, response |-> r, error |-> Undefined]] :
        r \in Responses}
    \cup {[status |-> 500,
           body |-> [success |-> FALSE, response |-> Undefined,
                     error |-> "generation failed"]]}

\* if (!authHeader || authHeader !== `Bearer ${expectedToken}`)
Unauthorized(authHeader) ==
    authHeader = Undefined \/ authHeader = "" \/ authHeader # Bearer[API_KEY]

\* Mutant: the Authorization header is compared after the container has
\* been started.
AuthQueryStart_AuthAfterStart(q, authHeader, accountIdOpt, promptOpt, pre) ==
    LET accountId == IF accountIdOpt = Undefined THEN "default" ELSE accountIdOpt
        reply(status, started) ==
            [op |-> "auth_query", authorization |-> authHeader,
             status |-> status, started |-> started, body |-> ErrorBody]
    IN  /\ NoAnswerPending
        /\ req[q].pc = "idle"
        /\ IF pre = "no_token"
           THEN /\ prior' = Snapshot
                /\ last' = reply(500, FALSE)
                /\ UNCHANGED <<req, forwarded>>
           ELSE IF promptOpt = Undefined
           THEN /\ prior' = Snapshot
                /\ last' = reply(400, FALSE)
                /\ UNCHANGED <<req, forwarded>>
           ELSE IF pre = "start_throws"
           THEN /\ prior' = Snapshot
                /\ last' = reply(500, TRUE)
                /\ UNCHANGED <<req, forwarded>>
           ELSE IF Unauthorized(authHeader)
           THEN /\ prior' = Snapshot
                /\ last' = reply(401, TRUE)
                /\ UNCHANGED <<req, forwarded>>
           ELSE /\ forwarded < MaxQueries
                /\ forwarded' = forwarded + 1
                /\ req' = [req EXCEPT ![q] =
                             [pc |-> "run", authorization |-> authHeader,
                              accountId |-> accountId, prompt |-> promptOpt]]
                /\ prior' = Snapshot
                /\ last' = NoOp
        /\ UNCHANGED <<now, conversations, messages, sqlite_sequence>>

\* From the Authorization check to the request sent to the container's
\* /run; started says whether startAndWaitForPorts was called.
AuthQueryStart(q, authHeader, accountIdOpt, promptOpt, pre) ==
    LET accountId == IF accountIdOpt = Undefined THEN "default" ELSE accountIdOpt
        reply(status, started) ==
            [op |-> "auth_query", authorization |-> authHeader,
             status |-> status, started |-> started, body |-> ErrorBody]
    IN  /\ NoAnswerPending
        /\ req[q].pc = "idle"
        /\ IF Unauthorized(authHeader)
           THEN /\ prior' = Snapshot
                /\ last' = reply(401, FALSE)
                /\ UNCHANGED <<req, forwarded>>
           ELSE IF pre = "no_token"
           THEN /\ prior' = Snapshot
                /\ last' = reply(500, FALSE)
                /\ UNCHANGED <<req, forwarded>>
           ELSE IF promptOpt = Undefined
           THEN /\ prior' = Snapshot
                /\ last' = reply(400, FALSE)
                /\ UNCHANGED <<req, forwarded>>
           ELSE IF pre = "start_throws"
           THEN /\ prior' = Snapshot
                /\ last' = reply(500, TRUE)
                /\ UNCHANGED <<req, forwarded>>
           ELSE /\ forwarded < MaxQueries
                /\ forwarded' = forwarded + 1
                /\ req' = [req EXCEPT ![q] =
                             [pc |-> "run", authorization |-> authHeader,
                              accountId |-> accountId, prompt |-> promptOpt]]
                /\ prior' = Snapshot
                /\ last' = NoOp
        /\ UNCHANGED <<now, conversations, messages, sqlite_sequence>>

\* instance.fetch(/run) throws: the catch answers 500.
AuthRunThrows(q) ==
    /\ NoAnswerPending
    /\ req[q].pc = "run"
    /\ req' = [req EXCEPT ![q] = IdleReq]
    /\ prior' = Snapshot
    /\ last' = [op |-> "auth_query", authorization |-> req[q].authorization,
                account |-> req[q].accountId,
                status |-> 500, started |-> TRUE, body |-> ErrorBody]
    /\ UNCHANGED <<now, conversations, messages, sqlite_sequence, forwarded>>

\* return c.newResponse(containerRes.body, containerRes): the container's
\* answer is handed on as it is.
AuthRunReturns(q, res) ==
    /\ NoAnswerPending
    /\ req[q].pc = "run"
    /\ req' = [req EXCEPT ![q] = IdleReq]
    /\ prior' = Snapshot
    /\ last' = [op |-> "auth_query", authorization |-> req[q].authorization,
                account |-> req[q].accountId,
                status |-> res.status, started |-> TRUE, body |-> res.body]
    /\ UNCHANGED <<now, conversations, messages, sqlite_sequence, forwarded>>

\* The steps of the authenticated Worker, which has the /query route only.
NextAuth ==
    \/ \E q \in Reqs, h \in AuthHeaders, a \in Accounts \cup {Undefined},
          p \in {Prompts[forwarded + 1], Undefined},
          pre \in {"ok", "no_token", "start_throws"} :
          /\ q = "q2" => req["q1"].pc # "idle"
          /\ AuthQueryStart(q, h, a, p, pre)
    \/ \E q \in Reqs : AuthRunThrows(q)
    \/ \E q \in Reqs, res \in ContainerResponses : AuthRunReturns(q, res)
    \/ Receive
SpecAuth == Init /\ [][NextAuth]_vars

\* One scope under fair scheduling: the cron trigger keeps firing, every
\* answer is received, the container answers every /run or the call throws,
\* and the Worker goes on to its store step.
SpecFair ==
    /\ Init
    /\ [][Next]_vars
    /\ SF_vars(Scheduled("none"))
    /\ WF_vars(Receive)
    /\ SF_vars(RunThrows("q1") \/ \E result \in RunResults : RunReturns("q1", result))
    /\ SF_vars(\E f \in 0..3 : StoreStep("q1", f))

\* ================================================================== claims
\* The step just taken ran purgeOldConversations (last.account names the scope).
Purged(answer) == answer.op \in {"purge", "scheduled"} /\ answer.status = 200

\* The conversations of a scope a purge at clock t is to delete.
Stale(convs, t) ==
    {s \in SessionIds :
        Exists(convs[s]) /\ convs[s].last_accessed_at < t - PURGE_THRESHOLD_MS}

\* C1: when a purge of a scope returns errors = 0, every conversation whose
\* last_accessed_at was below now - T before the call is gone, a
\* getConversation on its session_id answers not-found, and every
\* conversation left has last_accessed_at >= now - T.
C1_PurgeDeletesStale ==
    prior.taken =>
      (\A a \in Accounts :
          (Purged(last) /\ last.account = a /\ last.body.errors = 0) =>
             /\ \A s \in Stale(prior.conversations[a], prior.now) :
                   /\ ~Exists(conversations[a][s])
                   /\ getConversation(conversations[a], messages[a],
                                      s, now, 0).result = NotFound
             /\ \A s \in Rows(conversations[a]) :
                   conversations[a][s].last_accessed_at
                      >= now - PURGE_THRESHOLD_MS)

\* A purge without error has just deleted a conversation.
C1_Witness ==
    /\ Purged(last)
    /\ last.body.errors = 0
    /\ last.body.deleted >= 1

\* C2: a purge leaves every conversation with last_accessed_at >= now - T
\* (a conversation accessed exactly T ago included) and its messages as they
\* were, and `deleted` counts only the conversations below the cutoff.
C2_PurgeKeepsFresh ==
    prior.taken =>
      (\A a \in Accounts :
          (Purged(last) /\ last.account = a) =>
             /\ \A s \in Rows(prior.conversations[a]) \ Stale(prior.conversations[a], prior.now) :
                   /\ conversations[a][s] = prior.conversations[a][s]
                   /\ SelectMessages(messages[a], s) = SelectMessages(prior.messages[a], s)
             /\ last.body.deleted <= Cardinality(Stale(prior.conversations[a], prior.now)))

\* A purge has deleted one conversation and kept one accessed exactly T ago.
C2_Witness ==
    /\ Purged(last)
    /\ last.body.errors = 0
    /\ last.body.deleted >= 1
    /\ \E s \in Rows(conversations[last.account]) :
          conversations[last.account][s].last_accessed_at = now - PURGE_THRESHOLD_MS

\* C3: in every state every message's session_id is that of a conversation
\* its scope holds.
C3_NoOrphanMessages ==
    \A a \in Accounts :
        \A i \in 1..Len(messages[a]) :
            Exists(conversations[a][messages[a][i].session_id])

\* A delete or a purge has just removed a conversation that had messages:
\* the scope has drawn message ids and holds no message any more.
C3_Witness ==
    /\ last.op \in {"delete", "purge", "scheduled"}
    /\ sqlite_sequence[last.account] > 0
    /\ messages[last.account] = <<>>
    /\ Rows(conversations[last.account]) = {}

\* The step just taken answered a /query after its store step, for
\* conversation s of account a.
Stored(answer, a, s) ==
    /\ answer.op = "query"
    /\ answer.generation \in {"ok", "failed"}
    /\ answer.account = a
    /\ answer.session_id = s

\* The step just taken was an operation asked of account a.
AskedOf(answer, a) ==
    /\ answer.op \in {"get", "delete", "list", "stats", "purge", "scheduled"}
       \/ (answer.op = "query" /\ answer.generation \in {"ok", "failed"})
    /\ answer.account = a

\* The answers an operation on a scope in state (convs, msgs) at clock t may
\* give, by operation: what the scope of the account alone determines.
AnswersOf(answer, convs, msgs, t) ==
    CASE answer.op = "get" ->
           {getConversation(convs, msgs, answer.session_id, t, f).result : f \in 0..3}
      [] answer.op = "delete" -> {[success |-> b] : b \in BOOLEAN}
      [] answer.op = "list" ->
           {listConversations(convs, o, l, k, f) :
              o \in DescendingOrders(convs, answer.account),
              l \in 0..MaxLimit, k \in 0..MaxLimit, f \in BOOLEAN}
      [] answer.op = "stats" -> {getStorageStats(convs, t, f) : f \in BOOLEAN}
      [] answer.op = "purge" ->
           {purgeOldConversations(convs, msgs, t, f).result : f \in PurgeFaults}
      [] answer.op = "scheduled" ->
           {purgeOldConversations(convs, msgs, t, f).result : f \in PurgeFaults}
           \cup {[deleted |-> 0, errors |-> 1]}
      [] OTHER -> {answer.body}

\* C4: a step leaves the conversations, messages and id sequence of every
\* account other than the one it was asked of unchanged, and the answer of
\* an operation on an account is one its own scope determines.
C4_AccountIsolation ==
    prior.taken =>
      (\A b \in Accounts :
          IF AskedOf(last, b)
          THEN last.body \in AnswersOf(last, prior.conversations[b], prior.messages[b], prior.now)
          ELSE /\ conversations[b] = prior.conversations[b]
               /\ messages[b] = prior.messages[b]
               /\ sqlite_sequence[b] = prior.sqlite_sequence[b])

\* Both accounts held a conversation s1 with messages; the one of acct1 has
\* just been deleted, the one of default is there.
C4_Witness ==
    /\ last.op = "delete"
    /\ last.account = "acct1"
    /\ last.session_id = "s1"
    /\ sqlite_sequence["acct1"] > 0
    /\ messages["acct1"] = <<>>
    /\ Exists(conversations["default"]["s1"])
    /\ messages["default"] # <<>>

\* The (role, content) sequence a getConversation of s returns; empty when
\* it answers not-found.
Returned(convs, msgs, s, t) ==
    LET r == getConversation(convs, msgs, s, t, 0).result
    IN  IF r.found
        THEN [i \in 1..Len(r.messages) |->
                [role |-> r.messages[i].role, content |-> r.messages[i].content]]
        ELSE <<>>

\* C5: an append that succeeds extends what getConversation returns for its
\* session_id by exactly its messages, in input order, after those returned
\* before (none if the conversation did not exist); no other step changes
\* what is returned for a conversation that stays.
C5_GetReturnsAppended ==
    prior.taken =>
      (\A a \in Accounts, s \in SessionIds :
          LET before == Returned(prior.conversations[a], prior.messages[a], s, prior.now)
              after == Returned(conversations[a], messages[a], s, now)
          IN  IF Stored(last, a, s)
              THEN last.stored =>
                     \E q \in Reqs :
                        /\ prior.req[q].pc = "store"
                        /\ req[q].pc = "idle"
                        /\ Exists(conversations[a][s])
                        /\ after = before \o Turn(prior.req[q].prompt, prior.req[q].result)
              ELSE (Exists(prior.conversations[a][s]) /\ Exists(conversations[a][s]))
                      => after = before)

\* A read has just returned the four messages of two appends, in order.
C5_Witness ==
    /\ last.op = "get"
    /\ last.body.found
    /\ Len(last.body.messages) = 4
    /\ last.body.messages[1] = [role |-> "user", content |-> "p1", timestamp |-> StartTime]
    /\ last.body.messages[2].role = "assistant"
    /\ last.body.messages[3] = [role |-> "user", content |-> "p2", timestamp |-> StartTime]
    /\ last.body.messages[4].role = "assistant"

\* C6: no step changes the created_at of a conversation that stays; an
\* append that succeeds sets last_accessed_at to its time, and created_at
\* too when it creates the conversation.
C6_CreatedAtKept ==
    prior.taken =>
      (\A a \in Accounts, s \in SessionIds :
          /\ (Exists(prior.conversations[a][s]) /\ Exists(conversations[a][s]))
                => conversations[a][s].created_at = prior.conversations[a][s].created_at
          /\ (Stored(last, a, s) /\ last.stored)
                => /\ Exists(conversations[a][s])
                   /\ conversations[a][s].last_accessed_at = now
                   /\ ~Exists(prior.conversations[a][s])
                         => conversations[a][s].created_at = now)

\* A later append to a conversation has just moved last_accessed_at past
\* created_at.
C6_Witness ==
    /\ last.op = "query"
    /\ last.generation = "ok"
    /\ last.stored
    /\ conversations[last.account][last.session_id].created_at < now
    /\ conversations[last.account][last.session_id].last_accessed_at = now

\* The number of message rows of conversation s.
MessageCount(msgs, s) == Len(SelectMessages(msgs, s))

\* C7: an append that succeeds leaves metadata.message_count equal to the
\* number of messages of the conversation, when it creates the conversation
\* and when it finds it with an accurate count.
C7_MetadataReflectsCount ==
    prior.taken =>
      (\A a \in Accounts, s \in SessionIds :
          (/\ Stored(last, a, s)
           /\ last.stored
           /\ Exists(prior.conversations[a][s]) =>
                 JSONparse(prior.conversations[a][s].metadata).message_count
                    = MessageCount(prior.messages[a], s))
          => JSONparse(conversations[a][s].metadata).message_count
                = MessageCount(messages[a], s))

\* C8: a store step that throws leaves the scope as it was; one that does
\* not leaves the conversation and both messages of the turn.
C8_AppendAllOrNothing ==
    prior.taken =>
      (\A a \in Accounts, s \in SessionIds :
          Stored(last, a, s) =>
             IF last.stored
             THEN /\ Exists(conversations[a][s])
                  /\ Len(messages[a]) = Len(prior.messages[a]) + 2
             ELSE /\ conversations[a] = prior.conversations[a]
                  /\ messages[a] = prior.messages[a])

\* C9: a read that finds the conversation sets its last_accessed_at to the
\* time of the read, and a purge at a time before last_accessed_at + T
\* leaves the conversation.
C9_ReadExtendsRetention ==
    prior.taken =>
      (\A a \in Accounts, s \in SessionIds :
          /\ (last.op = "get" /\ last.account = a /\ last.session_id = s
                /\ last.body.found)
                => /\ Exists(conversations[a][s])
                   /\ conversations[a][s].last_accessed_at = now
          /\ (Purged(last) /\ last.account = a /\ Exists(prior.conversations[a][s])
                /\ now < prior.conversations[a][s].last_accessed_at + PURGE_THRESHOLD_MS)
                => conversations[a][s] = prior.conversations[a][s])

\* A purge has just deleted something and kept a conversation whose only
\* access inside the window was a read: every message of it is older than
\* the cutoff.
C9_Witness ==
    /\ Purged(last)
    /\ last.body.errors = 0
    /\ \E s \in Rows(conversations[last.account]) :
          /\ conversations[last.account][s].created_at < now - PURGE_THRESHOLD_MS
          /\ conversations[last.account][s].last_accessed_at >= now - PURGE_THRESHOLD_MS
          /\ MessageCount(messages[last.account], s) = 2
          /\ \A i \in 1..Len(messages[last.account]) :
                messages[last.account][i].timestamp < now - PURGE_THRESHOLD_MS

\* C10: the answer to a /query whose generation succeeded is the 200 answer
\* with the generated response and the request's session_id, whether the
\* store step threw or not.
C10_QueryAnswersDespiteStorage ==
    (last.op = "query" /\ last.generation = "ok") =>
        /\ last.status = 200
        /\ last.body.success
        /\ last.body.response \in Responses
        /\ last.body.session_id = last.session_id

\* A /query has just been answered whose generation succeeded and whose
\* store step threw.
C10_Witness ==
    /\ last.op = "query"
    /\ last.generation = "ok"
    /\ ~last.stored
    /\ last.status = 200

\* C11: a store step of a /query whose generation failed leaves the
\* conversations and messages of its scope as they were, and the answer
\* carries the error.
C11_FailedGenerationStoresNothing ==
    prior.taken =>
      (\A a \in Accounts, s \in SessionIds :
          (Stored(last, a, s) /\ last.generation = "failed") =>
             /\ conversations[a] = prior.conversations[a]
             /\ messages[a] = prior.messages[a]
             /\ last.body.error # Undefined)

\* C12: a purge called again at the same clock on the state a purge without
\* error left returns deleted = 0, whatever happens to its statements, and
\* leaves the conversations and messages of the scope as they are.
C12_PurgeIdempotent ==
    prior.taken =>
      (\A a \in Accounts :
          (Purged(last) /\ last.account = a /\ last.body.errors = 0) =>
             \A f \in PurgeFaults :
                LET again == purgeOldConversations(conversations[a], messages[a],
                                                   now, f)
                IN  /\ again.result.deleted = 0
                    /\ again.convs = conversations[a]
                    /\ again.msgs = messages[a])

\* A purge without error has just deleted a conversation and left one with
\* its messages: the scope a second purge runs on is not empty.
C12_Witness ==
    /\ Purged(last)
    /\ last.body.errors = 0
    /\ last.body.deleted >= 1
    /\ Rows(conversations[last.account]) # {}
    /\ messages[last.account] # <<>>

\* C13: the `deleted` a purge returns is the number of conversation rows of
\* the scope before the call minus the number after it.
C13_DeletedCountsRemovedRows ==
    prior.taken =>
      (\A a \in Accounts :
          (Purged(last) /\ last.account = a) =>
             last.body.deleted
                = Cardinality(Rows(prior.conversations[a]))
                     - Cardinality(Rows(conversations[a])))

\* A purge has just removed two conversations at once and reported two.
C13_Witness ==
    /\ Purged(last)
    /\ last.body.errors = 0
    /\ last.body.deleted = 2
    /\ Rows(conversations[last.account]) = {}

\* C14: while the scheduled ticks keep firing, a conversation of any account
\* whose last access is more than the threshold ago is eventually deleted
\* (or accessed again).
C14_EveryStaleConversationPurged ==
    \A a \in Accounts, s \in SessionIds :
        (s \in Stale(conversations[a], now)) ~> (s \notin Stale(conversations[a], now))

\* C15: the session_id a /query answers with is the one its body carried, or
\* one the Worker generated when the body carried none; when the store step
\* did not throw, getConversation of that id in the request's account finds
\* the conversation, and its last two messages are the turn.
C15_SessionIdReturnedAndStored ==
    prior.taken =>
      (\A q \in Reqs :
          (prior.req[q].pc = "store" /\ req[q].pc = "idle") =>
             LET id == last.body.session_id
                 a == prior.req[q].accountId
                 got == Returned(conversations[a], messages[a], id, now)
             IN  /\ IF prior.req[q].body_session_id # Undefined
                    THEN id = prior.req[q].body_session_id
                    ELSE id # Undefined /\ id \notin ClientSessionIds
                 /\ last.stored =>
                       /\ Exists(conversations[a][id])
                       /\ Len(got) >= 2
                       /\ SubSeq(got, Len(got) - 1, Len(got))
                             = Turn(prior.req[q].prompt, prior.req[q].result))

\* A /query that named no session_id has just been answered with a generated
\* one, and the turn is stored under it.
C15_Witness ==
    /\ last.op = "query"
    /\ last.generation = "ok"
    /\ last.stored
    /\ last.body.session_id \notin ClientSessionIds
    /\ Exists(conversations[last.account][last.body.session_id])
    /\ MessageCount(messages[last.account], last.body.session_id) = 2

\* The step just taken answered a delete of conversation s of account a.
Deleted(answer, a, s) ==
    answer.op = "delete" /\ answer.account = a /\ answer.session_id = s

\* The message rows of a scope that belong to conversations other than s.
MessagesOfOthers(msgs, s) ==
    LET other(m) == m.session_id # s
    IN  SelectSeq(msgs, other)

\* C16: a delete of s that answers true leaves no conversation s and no
\* message of s, so that getConversation(s) answers not-found, and leaves
\* every other conversation and its messages as they were; a conversation
\* that is not there comes into being only by a store step on its id.
C16_DeletedStaysGone ==
    prior.taken =>
      (\A a \in Accounts, s \in SessionIds :
          /\ (Deleted(last, a, s) /\ last.body.success) =>
                /\ ~Exists(conversations[a][s])
                /\ MessageCount(messages[a], s) = 0
                /\ getConversation(conversations[a], messages[a], s, now, 0).result
                      = NotFound
                /\ \A o \in SessionIds \ {s} :
                      conversations[a][o] = prior.conversations[a][o]
                /\ MessagesOfOthers(messages[a], s) = MessagesOfOthers(prior.messages[a], s)
          /\ (~Exists(prior.conversations[a][s]) /\ Exists(conversations[a][s]))
                => Stored(last, a, s))

\* A delete has just removed a conversation with its messages while another
\* conversation of the scope keeps its own.
C16_Witness ==
    /\ last.op = "delete"
    /\ last.body.success
    /\ ~Exists(conversations[last.account][last.session_id])
    /\ sqlite_sequence[last.account] = 4
    /\ Len(messages[last.account]) = 2
    /\ Cardinality(Rows(conversations[last.account])) = 1

\* C17: a delete of a session_id that has no conversation leaves the
\* conversations and messages of the scope as they were, and the method
\* returns true when its DELETE statement does not throw.
C17_DeleteMissingIsNoOp ==
    prior.taken =>
      (\A a \in Accounts, s \in SessionIds :
          (Deleted(last, a, s) /\ ~Exists(prior.conversations[a][s])) =>
             /\ conversations[a] = prior.conversations[a]
             /\ messages[a] = prior.messages[a]
             /\ deleteConversation(prior.conversations[a], prior.messages[a], s, FALSE).result)

\* A delete of a session_id the scope never held has just answered true: the
\* scope holds a conversation and every message it ever stored.
C17_Witness ==
    /\ last.op = "delete"
    /\ last.body.success
    /\ ~Exists(conversations[last.account][last.session_id])
    /\ sqlite_sequence[last.account] = 2
    /\ Len(messages[last.account]) = 2
    /\ Cardinality(Rows(conversations[last.account])) = 1

\* The number of conversations of a scope whose account_id is b.
CountOf(convs, b) ==
    Cardinality({s \in SessionIds : Exists(convs[s]) /\ convs[s].account_id = b})

\* page is a listing of account b with limit l and offset o: as many rows as
\* the pagination leaves, each a conversation of b met once with its
\* last_accessed_at, newest access first, carrying no messages.
ListShape(page, convs, b, l, o) ==
    LET n == CountOf(convs, b)
        rest == IF n - o > 0 THEN n - o ELSE 0
    IN  /\ Len(page) = IF l < rest THEN l ELSE rest
        /\ \A i \in 1..Len(page) :
              /\ DOMAIN page[i]
                    = {"session_id", "created_at", "last_accessed_at", "metadata"}
              /\ Exists(convs[page[i].session_id])
              /\ convs[page[i].session_id].account_id = b
              /\ page[i].last_accessed_at = convs[page[i].session_id].last_accessed_at
        /\ \A i, j \in 1..Len(page) :
              i < j => /\ page[i].last_accessed_at >= page[j].last_accessed_at
                       /\ page[i].session_id # page[j].session_id

\* C18: on the scope a list step reads, listConversations(b, l, o) whose
\* SELECT does not throw returns min(l, max(0, n - o)) conversations of
\* account b, by last_accessed_at descending and without messages, and the
\* answer of the step is such a listing (or the empty one of a throw).
C18_ListFilteredSortedPaged ==
    prior.taken =>
      (\A a \in Accounts :
          (last.op = "list" /\ last.account = a) =>
             /\ \A b \in Accounts, l \in 0..MaxLimit, o \in 0..MaxLimit :
                   \A order \in DescendingOrders(prior.conversations[a], b) :
                      ListShape(listConversations(prior.conversations[a], order, l, o, FALSE),
                                prior.conversations[a], b, l, o)
             /\ \/ last.body = <<>>
                \/ \E l \in 0..MaxLimit, o \in 0..MaxLimit :
                      ListShape(last.body, prior.conversations[a], a, l, o))

\* A listing has just returned two conversations, the one accessed later
\* first.
C18_Witness ==
    /\ last.op = "list"
    /\ Len(last.body) = 2
    /\ last.body[1].last_accessed_at > last.body[2].last_accessed_at

C20_StatsCountScope ==
    prior.taken =>
      (\A a \in Accounts :
          (last.op = "stats" /\ last.account = a /\ ~last.body.error) =>
             LET rows == Rows(prior.conversations[a])
                 age == last.body.oldest_conversation_age_days
             IN  /\ last.body.total_conversations = Cardinality(rows)
                 /\ last.body.conversations_ready_to_purge
                       = Cardinality(Stale(prior.conversations[a], prior.now))
                 /\ age.null <=> rows = {}
                 /\ ~age.null =>
                       /\ \E s \in rows :
                             age.value = prior.now - prior.conversations[a][s].created_at
                       /\ \A s \in rows :
                             age.value >= prior.now - prior.conversations[a][s].created_at)

\* The statistics of a scope with two conversations, one of them past the
\* threshold, have just been returned.
C20_Witness ==
    /\ last.op = "stats"
    /\ ~last.body.error
    /\ last.body.total_conversations = 2
    /\ last.body.conversations_ready_to_purge = 1
    /\ ~last.body.oldest_conversation_age_days.null

\* The step just taken answered one of the five storage operations the
\* Durable Object catches faults in.
CaughtOp(answer) ==
    \/ answer.op \in {"get", "list", "delete", "stats", "purge"}
    \/ answer.op = "scheduled" /\ answer.status = 200

\* C21: on the scope such a step runs on, a statement that throws inside
\* getConversation, listConversations, deleteConversation,
\* purgeOldConversations or getStorageStats yields null, [], false,
\* {deleted: 0, errors: 1} and the zeroed statistics; the step answers its
\* caller with a result (never the 500 of an exception).
C21_FaultsBecomeFallbacks ==
    prior.taken =>
      (\A a \in Accounts :
          (CaughtOp(last) /\ last.account = a) =>
             LET convs == prior.conversations[a]
                 msgs == prior.messages[a]
             IN  /\ last.status \in {200, 404}
                 /\ \A s \in SessionIds, f \in 1..3 :
                       getConversation(convs, msgs, s, prior.now, f).result = NotFound
                 /\ \A l \in 0..MaxLimit, o \in 0..MaxLimit :
                       \A order \in DescendingOrders(convs, a) :
                          listConversations(convs, order, l, o, TRUE) = <<>>
                 /\ \A s \in SessionIds :
                       deleteConversation(convs, msgs, s, TRUE).result = FALSE
                 /\ \A f \in PurgeFaults \ {"none"} :
                       purgeOldConversations(convs, msgs, prior.now, f).result
                          = [deleted |-> 0, errors |-> 1]
                 /\ LET stats == getStorageStats(convs, prior.now, TRUE)
                    IN  /\ stats.total_conversations = 0
                        /\ stats.conversations_ready_to_purge = 0
                        /\ stats.oldest_conversation_age_days = JsNull
                        /\ stats.error)

\* A purge whose statement threw has just answered errors = 1 and left a
\* conversation past the threshold in the scope.
C21_Witness ==
    /\ Purged(last)
    /\ last.body.errors = 1
    /\ last.body.deleted = 0
    /\ Stale(conversations[last.account], now) # {}

\* C22: in every state every conversation of every scope has
\* last_accessed_at >= created_at.
C22_AccessedNotBeforeCreated ==
    \A a \in Accounts :
        \A s \in Rows(conversations[a]) :
            conversations[a][s].last_accessed_at >= conversations[a][s].created_at

\* A read has just moved the last_accessed_at of a conversation past its
\* created_at.
C22_Witness ==
    /\ last.op = "get"
    /\ last.body.found
    /\ last.body.created_at < last.body.last_accessed_at
    /\ conversations[last.account][last.session_id].last_accessed_at = now
    /\ conversations[last.account][last.session_id].created_at < now

\* C23: in every state the conversation rows of a scope have pairwise
\* different session_ids (each row is the one of its own session_id), and a
\* store step on a session_id the scope holds adds no conversation row.
C23_OneConversationPerSessionId ==
    prior.taken =>
      (\A a \in Accounts :
          /\ \A k \in Rows(conversations[a]) : conversations[a][k].session_id = k
          /\ \A k, o \in Rows(conversations[a]) :
                conversations[a][k].session_id = conversations[a][o].session_id
                   => k = o
          /\ \A s \in SessionIds :
                (Stored(last, a, s) /\ Exists(prior.conversations[a][s])) =>
                   Rows(conversations[a]) = Rows(prior.conversations[a]))

\* A second append to a session_id has just been stored: the scope holds
\* one conversation and the four messages of two turns.
C23_Witness ==
    /\ last.op = "query"
    /\ last.stored
    /\ Cardinality(Rows(conversations[last.account])) = 1
    /\ MessageCount(messages[last.account], last.session_id) = 4

\* C24: a list step and a stats step leave every conversation (its
\* last_accessed_at included), every message and every id sequence of every
\* scope as they were.
C24_ListAndStatsArePureReads ==
    prior.taken =>
      (last.op \in {"list", "stats"} =>
          /\ conversations = prior.conversations
          /\ messages = prior.messages
          /\ sqlite_sequence = prior.sqlite_sequence)

\* A listing has just shown a conversation whose last access is more than
\* the threshold ago: the conversation is still to be purged.
C24_Witness ==
    /\ last.op = "list"
    /\ Len(last.body) >= 1
    /\ last.body[1].last_accessed_at < now - PURGE_THRESHOLD_MS
    /\ last.body[1].session_id \in Stale(conversations[last.account], now)

\* C25: every step is a whole operation on a scope.  The messages of a
\* conversation change only by a whole turn of a store step that did not
\* throw, by a store step that reports its throw, or by going with their
\* conversation in a delete or a purge; a conversation row comes into being
\* with both messages of its turn unless the store step reports a throw.
C25_OperationsOneAtATime ==
    prior.taken =>
      (\A a \in Accounts, s \in SessionIds :
          LET before == MessageCount(prior.messages[a], s)
              after == MessageCount(messages[a], s)
          IN  /\ \/ after = before
                 \/ Stored(last, a, s) /\ last.stored /\ after = before + 2
                 \/ Stored(last, a, s) /\ ~last.stored
                 \/ /\ last.op \in {"delete", "purge", "scheduled"}
                    /\ last.account = a
                    /\ ~Exists(conversations[a][s])
                    /\ after = 0
              /\ (~Exists(prior.conversations[a][s]) /\ Exists(conversations[a][s])) =>
                    /\ Stored(last, a, s)
                    /\ last.stored => after = 2)

\* A purge has just run on the scope of a /query whose generation has
\* returned and whose store step is still to come: the scope holds nothing
\* of that turn.
C25_Witness ==
    /\ Purged(last)
    /\ \E q \in Reqs :
          /\ req[q].pc = "store"
          /\ req[q].accountId = last.account
          /\ ~Exists(conversations[last.account][req[q].sessionId])
          /\ MessageCount(messages[last.account], req[q].sessionId) = 0

\* C26: requests that carry the same accountId are serialized: while one
\* /query request of an account is between the start of its generation and
\* the end of its store step, no other /query request of that account has
\* started its generation or its store step.
C26_QueriesOfOneAccountSerialized ==
    \A q \in Reqs, r \in Reqs :
        (q # r /\ req[q].pc \in {"run", "store"} /\ req[r].pc \in {"run", "store"})
            => idFromName(req[q].accountId) # idFromName(req[r].accountId)

\* C27: scheduled() never fails towards its caller.  Every scheduled step,
\* whether its purge answers errors = 1 or the call to the object throws,
\* completes, and a tick that failed changes nothing; and while the ticks
\* keep firing, a tick that reported an error is followed by a tick whose
\* purge runs without one.
C27_ScheduledNeverFails ==
    /\ [](prior.taken => (last.op = "scheduled" =>
                             /\ last.completed
                             /\ last.body.errors \in {0, 1}
                             /\ last.body.errors = 1 =>
                                   /\ last.body.deleted = 0
                                   /\ conversations = prior.conversations
                                   /\ messages = prior.messages
                             /\ req = prior.req))
    /\ (last.op = "scheduled" /\ last.body.errors = 1)
          ~> (last.op = "scheduled" /\ last.status = 200 /\ last.body.errors = 0)

\* The call to the object has just thrown in a scheduled tick while a
\* conversation of the scope is past the threshold: a later tick has it to
\* purge.
C27_Witness ==
    /\ last.op = "scheduled"
    /\ last.status = 500
    /\ last.body.errors = 1
    /\ Stale(conversations["default"], now) # {}

\* The message rows a step inserts into the scope of account a: the ids
\* above the scope's sequence before the step.
Inserted(a) ==
    {messages[a][i] : i \in {j \in 1..Len(messages[a]) :
                               messages[a][j].id > prior.sqlite_sequence[a]}}

\* C28: within one /query the append comes strictly after the generation
\* response.  A request enters its generation and leaves it for its store
\* step in steps that write nothing; a step that inserts a message or
\* creates a conversation is the store step of a request whose generation
\* has returned, and what it inserts is that request's turn, built from the
\* result the generation returned.
C28_AppendAfterGeneration ==
    prior.taken =>
      (/\ \A q \in Reqs :
             /\ (req[q].pc = "run" /\ prior.req[q].pc # "run") =>
                   /\ prior.req[q].pc = "idle"
                   /\ <<conversations, messages, sqlite_sequence>>
                         = <<prior.conversations, prior.messages, prior.sqlite_sequence>>
             /\ (req[q].pc = "store" /\ prior.req[q].pc # "store") =>
                   /\ prior.req[q].pc = "run"
                   /\ req[q].result \in RunResults
                   /\ <<conversations, messages, sqlite_sequence>>
                         = <<prior.conversations, prior.messages, prior.sqlite_sequence>>
       /\ \A a \in Accounts :
             (Inserted(a) # {} \/ Rows(conversations[a]) \ Rows(prior.conversations[a]) # {})
                => \E q \in Reqs :
                      /\ prior.req[q].pc = "store"
                      /\ req[q].pc = "idle"
                      /\ idFromName(prior.req[q].accountId) = a
                      /\ Rows(conversations[a]) \ Rows(prior.conversations[a])
                            \subseteq {prior.req[q].sessionId}
                      /\ \A m \in Inserted(a) :
                            /\ m.session_id = prior.req[q].sessionId
                            /\ \E i \in 1..2 :
                                  LET t == Turn(prior.req[q].prompt, prior.req[q].result)[i]
                                  IN  /\ m.role = t.role
                                      /\ m.content = BindContent(t.content))

\* The turn of one request has just been stored while a second request for
\* the same conversation still waits on its generation: the scope holds the
\* first turn and nothing of the second.
C28_Witness ==
    /\ last.op = "query"
    /\ last.generation = "ok"
    /\ last.stored
    /\ MessageCount(messages[last.account], last.session_id) = 2
    /\ \E q \in Reqs :
          /\ req[q].pc = "run"
          /\ idFromName(req[q].accountId) = last.account
          /\ req[q].sessionId = last.session_id

\* C29: a purge does not wait for a query and a query does not wait for a
\* purge.  While a /query waits on its generation or on its store step, the
\* manual purge of its scope and the scheduled purge can be taken; and under
\* fair scheduling the purge runs again and again without error, a
\* generation that is awaited ends, and a store step that is due is taken.
C29_PurgeAndQueryDoNotStarve ==
    /\ [](\A q \in Reqs :
             (req[q].pc \in {"run", "store"} /\ NoAnswerPending) =>
                /\ ENABLED ManualPurge(req[q].accountId, "none")
                /\ ENABLED Scheduled("none"))
    /\ []<>(Purged(last) /\ last.body.errors = 0)
    /\ \A q \in Reqs : (req[q].pc = "run") ~> (req[q].pc # "run")
    /\ \A q \in Reqs : (req[q].pc = "store") ~> (req[q].pc = "idle")

\* A purge has just deleted a conversation of a scope while a /query for
\* that scope waits on its generation.
C29_Witness ==
    /\ Purged(last)
    /\ last.body.errors = 0
    /\ last.body.deleted >= 1
    /\ \E q \in Reqs :
          /\ req[q].pc = "run"
          /\ idFromName(req[q].accountId) = last.account

\* The message rows a scope holds.
MessageRows(msgs) == {msgs[i] : i \in 1..Len(msgs)}

\* C30: a stored message is never mutated and goes only with its
\* conversation.  In every step, a message row a scope holds is either held
\* after the step exactly as it was (no other row has its id), or it is gone
\* in a delete of its conversation or a purge of its scope, after which its
\* conversation is not there either.
C30_MessagesImmutable ==
    prior.taken =>
      (\A a \in Accounts : \A m \in MessageRows(prior.messages[a]) :
          \/ /\ m \in MessageRows(messages[a])
             /\ \A n \in MessageRows(messages[a]) : n.id = m.id => n = m
          \/ /\ \A n \in MessageRows(messages[a]) : n.id # m.id
             /\ \/ Deleted(last, a, m.session_id)
                \/ Purged(last) /\ last.account = a
             /\ ~Exists(conversations[a][m.session_id]))

\* A purge has just deleted one conversation of a scope and its messages,
\* and the messages of another conversation of the scope are still there.
C30_Witness ==
    /\ Purged(last)
    /\ last.body.deleted >= 1
    /\ Len(messages[last.account]) >= 2
    /\ \A m \in MessageRows(messages[last.account]) :
          Exists(conversations[last.account][m.session_id])

\* C31: schema initialization is idempotent and non-destructive.  A start of
\* the object on a scope that holds data leaves every conversation, every
\* message and the id sequence as they were and has foreign keys enforced;
\* and in every state, restarts included, no message is left whose
\* conversation is gone.
C31_InitializeDatabaseIdempotent ==
    prior.taken =>
      (/\ last.op = "restart" =>
             /\ conversations = prior.conversations
             /\ messages = prior.messages
             /\ sqlite_sequence = prior.sqlite_sequence
             /\ last.foreign_keys
             /\ LET id == idFromName(last.account)
                    again == initializeDatabase(conversations[id], messages[id],
                                                sqlite_sequence[id], TRUE)
                IN  /\ again.convs = conversations[id]
                    /\ again.msgs = messages[id]
       /\ \A a \in Accounts : \A m \in MessageRows(messages[a]) :
             Exists(conversations[a][m.session_id]))

\* The object has just been started again on a scope that holds a
\* conversation and its messages.
C31_Witness ==
    /\ last.op = "restart"
    /\ Rows(conversations[last.account]) # {}
    /\ Len(messages[last.account]) >= 2

\* C32: a scheduled tick purges exactly one scope, the one named "default",
\* which is the scope of a /query that names no accountId.  What the tick
\* answers and leaves in that scope is what purgeOldConversations makes of
\* it, and the conversations and messages of every other account's scope
\* are as they were.
C32_ScheduledPurgesDefaultOnly ==
    prior.taken =>
      (last.op = "scheduled" =>
          /\ last.account = "default"
          /\ last.status = 200 =>
                \E f \in PurgeFaults :
                   LET r == purgeOldConversations(prior.conversations[idFromName("default")],
                                                  prior.messages[idFromName("default")],
                                                  prior.now, f)
                   IN  /\ last.body = r.result
                       /\ conversations[idFromName("default")] = r.convs
                       /\ messages[idFromName("default")] = r.msgs
          /\ \A a \in Accounts :
                idFromName(a) # idFromName("default") =>
                   /\ conversations[idFromName(a)] = prior.conversations[idFromName(a)]
                   /\ messages[idFromName(a)] = prior.messages[idFromName(a)])

\* A scheduled tick has just deleted a conversation of the default scope
\* while a conversation of another account, past the threshold as well, is
\* still there.
C32_Witness ==
    /\ last.op = "scheduled"
    /\ last.body.deleted >= 1
    /\ \E a \in Accounts \ {"default"} : Stale(conversations[a], now) # {}

\* C33: two /query requests that carry no session_id are given distinct
\* generated ids: two such requests in flight at once never hold the same
\* session id.
C33_GeneratedIdsDistinct ==
    \A q \in Reqs, r \in Reqs :
        (/\ q # r
         /\ req[q].pc \in {"run", "store"}
         /\ req[r].pc \in {"run", "store"}
         /\ req[q].body_session_id = Undefined
         /\ req[r].body_session_id = Undefined)
            => req[q].sessionId # req[r].sessionId

\* C34: in the authenticated Worker a /query whose Authorization header is
\* missing or is not "Bearer <API_KEY>" is answered 401 before anything
\* else: no container is started for it and nothing is forwarded to /run,
\* whatever its body and whether the OAuth token is set or not; a request
\* that goes to the container carried the right header.
C34_UnauthorizedIsRejectedFirst ==
    prior.taken =>
      (/\ (last.op = "auth_query" /\ last.authorization # Bearer[API_KEY]) =>
             /\ last.status = 401
             /\ ~last.started
             /\ forwarded = prior.forwarded
             /\ req = prior.req
       /\ \A q \in Reqs :
             (prior.req[q].pc = "idle" /\ req[q].pc = "run") =>
                req[q].authorization = Bearer[API_KEY])

\* A request with the key of someone else has just been answered 401 while
\* a request with the right key waits on its generation.
C34_Witness ==
    /\ last.op = "auth_query"
    /\ last.authorization = Bearer["k2"]
    /\ last.status = 401
    /\ \E q \in Reqs : req[q].pc = "run"

\* C35: every conversation a scope holds has its messages, taken in
\* insertion order, in consecutive (user, assistant) pairs: there is at
\* least one pair, and no user message without the assistant message of its
\* turn.
C35_MessagesComeInPairs ==
    \A a \in Accounts, s \in SessionIds :
        Exists(conversations[a][s]) =>
           LET rows == SelectMessages(messages[a], s)
           IN  /\ Len(rows) >= 2
               /\ Len(rows) % 2 = 0
               /\ \A i \in 1..Len(rows) :
                     rows[i].role = IF i % 2 = 1 THEN "user" ELSE "assistant"

\* C36: stats and purge agree.  On the state and at the clock of a purge
\* that ran without error, getStorageStats reports as ready to purge the
\* number the purge answers as deleted; on the state the purge leaves it
\* reports none ready and a total smaller by that number; and what a stats
\* step answers as ready is what a purge of that state and clock would
\* answer as deleted.
C36_StatsAgreeWithPurge ==
    prior.taken =>
      (\A a \in Accounts :
          /\ (Purged(last) /\ last.account = a /\ last.body.errors = 0) =>
                LET before == getStorageStats(prior.conversations[idFromName(a)], prior.now, FALSE)
                    after == getStorageStats(conversations[idFromName(a)], now, FALSE)
                IN  /\ before.conversations_ready_to_purge = last.body.deleted
                    /\ after.conversations_ready_to_purge = 0
                    /\ after.total_conversations
                          = before.total_conversations - last.body.deleted
          /\ (last.op = "stats" /\ last.account = a /\ ~last.body.error) =>
                last.body.conversations_ready_to_purge
                   = purgeOldConversations(prior.conversations[idFromName(a)],
                                           prior.messages[idFromName(a)], prior.now,
                                           "none").result.deleted)

\* A purge has just deleted one conversation of a scope and left another,
\* and the stats of the scope now count one conversation, none of them
\* ready to purge.
C36_Witness ==
    /\ Purged(last)
    /\ last.body.errors = 0
    /\ last.body.deleted = 1
    /\ LET stats == getStorageStats(conversations[idFromName(last.account)], now, FALSE)
       IN  /\ stats.total_conversations = 1
           /\ stats.conversations_ready_to_purge = 0

\* C37: every conversation in the scope of account a carries account_id = a,
\* a conversation that stays keeps its account_id, and so a listing of a
\* with a limit no smaller than the table returns as many conversations as
\* getStorageStats counts in total_conversations, namely every conversation
\* of the scope.
C37_ScopeHoldsItsAccountOnly ==
    prior.taken =>
      (\A a \in Accounts :
          LET id == idFromName(a)
              stats == getStorageStats(conversations[id], now, FALSE)
          IN  /\ \A s \in Rows(conversations[id]) :
                    /\ conversations[id][s].account_id = a
                    /\ s \in Rows(prior.conversations[id]) =>
                          conversations[id][s].account_id
                             = prior.conversations[id][s].account_id
              /\ \A order \in DescendingOrders(conversations[id], a) :
                    LET all == listConversations(conversations[id], order,
                                                 Cardinality(SessionIds), 0, FALSE)
                    IN  /\ Len(all) = stats.total_conversations
                        /\ {all[i].session_id : i \in 1..Len(all)}
                              = Rows(conversations[id]))

\* Both accounts hold a conversation of the same session id, each under its
\* own account_id, and a listing of the second account has just returned
\* its one conversation.
C37_Witness ==
    /\ last.op = "list"
    /\ last.account = "acct1"
    /\ Len(last.body) = 1
    /\ Exists(conversations["acct1"]["s1"])
    /\ Exists(conversations["default"]["s1"])
    /\ conversations["acct1"]["s1"].account_id = "acct1"
    /\ conversations["default"]["s1"].account_id = "default"

\* C38: an append to a session_id whose conversation has been destroyed
\* makes a fresh conversation.  A delete or a purge that destroys a
\* conversation leaves no message of it; and a store step on a session_id
\* the scope does not hold, when it does not throw, makes a conversation
\* whose created_at is the clock of that step and of which getConversation
\* returns the appended turn and nothing else.
C38_AppendAfterDestructionIsFresh ==
    prior.taken =>
      (\A a \in Accounts, s \in SessionIds :
          /\ ~Exists(conversations[a][s]) => MessageCount(messages[a], s) = 0
          /\ (Stored(last, a, s) /\ last.stored /\ ~Exists(prior.conversations[a][s])) =>
                /\ Exists(conversations[a][s])
                /\ conversations[a][s].created_at = now
                /\ Len(Returned(conversations[a], messages[a], s, now)) = 2
                /\ \A m \in MessageRows(messages[a]) :
                      m.session_id = s =>
                         /\ m.id > prior.sqlite_sequence[a]
                         /\ m.timestamp = now)

\* A turn has just been stored under s1 after the clock moved on, in a scope
\* whose earlier turn is gone: the conversation is created at this clock and
\* holds the messages 3 and 4 only.
C38_Witness ==
    /\ last.op = "query"
    /\ last.stored
    /\ last.session_id = "s1"
    /\ now > StartTime
    /\ conversations[last.account]["s1"].created_at = now
    /\ sqlite_sequence[last.account] = 4
    /\ {m.id : m \in MessageRows(messages[last.account])} = {3, 4}

\* C39: a purge that answers {deleted: 0, errors: 1} has removed nothing:
\* the conversations and the messages of every scope are as they were
\* before the call, those past the threshold included.
C39_FailedPurgeChangesNothing ==
    prior.taken =>
      ((/\ last.op \in {"purge", "scheduled"}
        /\ last.body.errors = 1) =>
          /\ last.body.deleted = 0
          /\ conversations = prior.conversations
          /\ messages = prior.messages
          /\ sqlite_sequence = prior.sqlite_sequence
          /\ Stale(conversations[idFromName(last.account)], now)
                = Stale(prior.conversations[idFromName(last.account)], prior.now))

\* A manual purge whose DELETE threw has just answered errors = 1, and the
\* two conversations it was to delete are still there with their messages.
C39_Witness ==
    /\ last.op = "purge"
    /\ last.body = [deleted |-> 0, errors |-> 1]
    /\ Cardinality(Stale(conversations[idFromName(last.account)], now)) = 2
    /\ Len(messages[idFromName(last.account)]) = 4

====
